---- MODULE Spec2Model ----
(***************************************************************************)
(* Model of pkg/providers/github.go: the GitHub provider of "bin".         *)
(*                                                                         *)
(*   ParseSpec  newGitHub: URL path -> provider handle (owner, repo, tag)  *)
(*   Spec       Fetch / GetLatestVersion / getAnyLatestRelease against a   *)
(*              provider whose responses are chosen by the environment     *)
(*                                                                         *)
(* Go strings are sequences of tokens; the token "/" is the path separator *)
(* and every other token stands for a run of non-separator characters.     *)
(***************************************************************************)
EXTENDS Integers, Sequences, FiniteSets, TLC

\* ---------------------------------------------------------------- bounds
MaxSegs == 7      \* longest URL path, counted in "/"-separated segments
MaxAssets == 2    \* most attachments on one release

\* ------------------------------------------------------------ vocabulary
Slash == "/"
Words == {"o", "releases", "tag", "download", "v1"}
EmptyStr == <<>>
Segment == {EmptyStr} \cup {<<w>> : w \in Words}
StatusNotFound == 404

VARIABLES
    urlSegs,     \* the segments the URL path was written with (input record)
    path,        \* u.Path
    ppc,         \* position inside newGitHub
    s,           \* s := strings.Split(u.Path, "/")
    ps,          \* ps := strings.Split(u.Path, "/") of the releases branch
    i,           \* index of the range loop over ps (1-based)
    tag,         \* var tag string
    outcome,     \* how newGitHub ended: "none", "error", "handle", "panic"
    handle,      \* the gitHub struct returned
    op,          \* the method called on the handle
    gtag,        \* g.tag of the handle the method runs on
    pc,          \* position inside Fetch / GetLatestVersion
    release,     \* release
    err,         \* err
    origErr,     \* err of GetLatestRelease inside getAnyLatestRelease
    candidates,  \* candidates
    selected,    \* gf
    processed,   \* name, outputFile
    trace,       \* every outbound call made so far, in order
    responses,   \* what each outbound call answered
    result       \* the values returned to the caller

parseVars == <<urlSegs, path, ppc, s, ps, i, tag, outcome, handle>>
fetchVars == <<op, gtag, pc, release, err, origErr, candidates, selected,
               processed, trace, responses, result>>
vars == <<urlSegs, path, ppc, s, ps, i, tag, outcome, handle,
          op, gtag, pc, release, err, origErr, candidates, selected,
          processed, trace, responses, result>>

\* ------------------------------------------------------ string functions
\* strings.Join(elems, "/")
RECURSIVE Join(_)
Join(elems) ==
    IF Len(elems) = 0 THEN EmptyStr
    ELSE IF Len(elems) = 1 THEN elems[1]
    ELSE elems[1] \o <<Slash>> \o Join(Tail(elems))

\* strings.Split(str, "/"): n separators give n+1 fields, empty ones kept
RECURSIVE Split(_)
Split(str) ==
    IF \A k \in 1..Len(str) : str[k] # Slash THEN <<str>>
    ELSE LET k == CHOOSE k \in 1..Len(str) :
                      /\ str[k] = Slash
                      /\ \A j \in 1..(k-1) : str[j] # Slash
         IN  <<SubSeq(str, 1, k-1)>> \o Split(SubSeq(str, k+1, Len(str)))

\* strings.Contains(str, sub)
Contains(str, sub) ==
    \E k \in 1..(Len(str) - Len(sub) + 1) :
        SubSeq(str, k, k + Len(sub) - 1) = sub

\* ------------------------------------------------------------ idle values
NoHandle == [owner |-> EmptyStr, repo |-> EmptyStr, tag |-> EmptyStr]
NoErr == [src |-> "none", isErrResp |-> FALSE, status |-> 0]
NoRelease == [tagName |-> "", htmlURL |-> "", assets |-> <<>>]
NoAsset == [Name |-> "", URL |-> ""]
NoProcessed == [name |-> "", outputFile |-> ""]
NoFile == [Data |-> "", Name |-> <<>>, Hash |-> "", Version |-> ""]
NoResult == [file |-> NoFile, version |-> "", url |-> "", err |-> NoErr]
NoResponses == <<>>

ParseIdle ==
    /\ urlSegs = <<>> /\ path = EmptyStr /\ ppc = "idle" /\ s = <<>>
    /\ ps = <<>> /\ i = 0 /\ tag = EmptyStr /\ outcome = "none"
    /\ handle = NoHandle

FetchIdle ==
    /\ op = "none" /\ gtag = "" /\ pc = "idle" /\ release = NoRelease
    /\ err = NoErr /\ origErr = NoErr /\ candidates = <<>>
    /\ selected = NoAsset /\ processed = NoProcessed /\ trace = <<>>
    /\ responses = NoResponses /\ result = NoResult

\* ================================================================ newGitHub
\* URL paths of absolute URLs: empty, or starting with "/".
UrlPaths ==
    UNION {{sg \in [1..n -> Segment] : sg[1] = EmptyStr} : n \in 1..MaxSegs}

InitParse ==
    /\ urlSegs \in UrlPaths
    /\ path = Join(urlSegs)
    /\ ppc = "split"
    /\ s = <<>> /\ ps = <<>> /\ i = 0 /\ tag = EmptyStr
    /\ outcome = "none" /\ handle = NoHandle
    /\ FetchIdle

\* s := strings.Split(u.Path, "/"); if len(s) < 2 { return nil, error }
ParseSplitError ==
    /\ ppc = "split"
    /\ Len(Split(path)) < 2
    /\ s' = Split(path)
    /\ outcome' = "error"
    /\ ppc' = "done"
    /\ UNCHANGED <<urlSegs, path, ps, i, tag, handle>>
    /\ UNCHANGED fetchVars

ParseSplitOk ==
    /\ ppc = "split"
    /\ Len(Split(path)) >= 2
    /\ s' = Split(path)
    /\ IF Contains(path, <<Slash, "releases", Slash>>)
       THEN /\ ps' = Split(path)
            /\ i' = 1
            /\ ppc' = "loop"
       ELSE /\ ps' = ps
            /\ i' = i
            /\ ppc' = "bind"
    /\ UNCHANGED <<urlSegs, path, tag, outcome, handle>>
    /\ UNCHANGED fetchVars

\* one iteration of: for i, p := range ps { if p == "releases" { ... } }
\* ps[i+2:] of Go (0-based i) is elements i+2..Len of the 1-based sequence
\* and is out of range when it starts more than one past the end.
ParseTagIter ==
    /\ ppc = "loop"
    /\ i <= Len(ps)
    /\ IF ps[i] = <<"releases">>
       THEN IF i + 1 > Len(ps)
            THEN /\ outcome' = "panic"
                 /\ ppc' = "done"
                 /\ UNCHANGED <<tag, i>>
            ELSE /\ tag' = Join(SubSeq(ps, i + 2, Len(ps)))
                 /\ i' = i + 1
                 /\ UNCHANGED <<outcome, ppc>>
       ELSE /\ i' = i + 1
            /\ UNCHANGED <<tag, outcome, ppc>>
    /\ UNCHANGED <<urlSegs, path, s, ps, handle>>
    /\ UNCHANGED fetchVars

ParseLoopEnd ==
    /\ ppc = "loop"
    /\ i > Len(ps)
    /\ ppc' = "bind"
    /\ UNCHANGED <<urlSegs, path, s, ps, i, tag, outcome, handle>>
    /\ UNCHANGED fetchVars

\* return &gitHub{owner: s[1], repo: s[2], tag: tag}, nil
ParseBind ==
    /\ ppc = "bind"
    /\ IF Len(s) < 3
       THEN /\ outcome' = "panic"
            /\ handle' = handle
       ELSE /\ outcome' = "handle"
            /\ handle' = [owner |-> s[2], repo |-> s[3], tag |-> tag]
    /\ ppc' = "done"
    /\ UNCHANGED <<urlSegs, path, s, ps, i, tag>>
    /\ UNCHANGED fetchVars

NextParse ==
    \/ ParseSplitError
    \/ ParseSplitOk
    \/ ParseTagIter
    \/ ParseLoopEnd
    \/ ParseBind

ParseSpec == InitParse /\ [][NextParse]_vars


\* =========================================================== the provider
\* Release descriptors the provider can answer with.
ReleaseTags == {"v1", "v2"}
HTMLURLOf(t) == IF t = "v1" THEN "html/v1" ELSE "html/v2"
Attachments == {[name |-> "a", url |-> "dl/a"], [name |-> "b", url |-> "dl/b"]}
AssetLists == UNION {[1..n -> Attachments] : n \in 0..MaxAssets}
Releases ==
    {[tagName |-> t, htmlURL |-> HTMLURLOf(t), assets |-> as] :
        t \in ReleaseTags, as \in AssetLists}
\* A tag identifies one release of a repository: the releases of one
\* listing carry pairwise different tags.
ReleaseLists ==
    UNION {{l \in [1..n -> Releases] :
               \A j, k \in 1..n : j # k => l[j].tagName # l[k].tagName} :
           n \in 0..Cardinality(ReleaseTags)}

\* Errors of an outbound call: a *github.ErrorResponse carrying an HTTP
\* status, or any other error (network).
CallErrors(src) ==
    {[src |-> src, isErrResp |-> TRUE, status |-> StatusNotFound],
     [src |-> src, isErrResp |-> TRUE, status |-> 403],
     [src |-> src, isErrResp |-> FALSE, status |-> 0]}

NotCalled == [called |-> FALSE, rel |-> NoRelease, rels |-> <<>>,
              arg |-> <<>>, err |-> NoErr]
Answer(rel, rels, arg, e) ==
    [called |-> TRUE, rel |-> rel, rels |-> rels, arg |-> arg, err |-> e]

\* ============================================================== gitHub code
\* if len(g.tag) > 0 { GetReleaseByTag } else { getAnyLatestRelease };
\* GetLatestVersion has no such branch and always takes the latter.
PinnedCallAnyMethod(method, t) == t # ""
PinnedCall(method, t) == method = "Fetch" /\ t # ""

\* ghErrResp, ok := err.(*github.ErrorResponse);
\* ok && ghErrResp.Response.StatusCode == http.StatusNotFound
IsNotFoundAnyStatus(e) == e.isErrResp
IsNotFound(e) == e.isErrResp /\ e.status = StatusNotFound

\* return releases[0], nil
FirstListedLast(releases) == releases[Len(releases)]
FirstListed(releases) == releases[1]

\* Return original 404/StatusNotFound error from GetLatestRelease
EmptyListErrorSecondary(orig) ==
    [src |-> "ListReleases", isErrResp |-> FALSE, status |-> 0]
EmptyListError(orig) == orig

\* for _, a := range release.Assets { candidates = append(candidates, ...) }
BuildCandidatesReversed(assets) ==
    [k \in 1..Len(assets) |->
        [Name |-> assets[Len(assets) + 1 - k].name,
         URL |-> assets[Len(assets) + 1 - k].url]]
RECURSIVE BuildCandidatesFrom(_, _)
BuildCandidatesFrom(acc, rest) ==
    IF rest = <<>> THEN acc
    ELSE BuildCandidatesFrom(
             Append(acc, [Name |-> Head(rest).name, URL |-> Head(rest).url]),
             Tail(rest))
BuildCandidates(assets) == BuildCandidatesFrom(<<>>, assets)

\* return nil, err
ErrorReturnPartial(e) ==
    [NoResult EXCEPT !.err = e,
                     !.file = [NoFile EXCEPT !.Hash = "sha256.New()"]]
ErrorReturn(e) == [NoResult EXCEPT !.err = e]

\* assets.SanitizeName(name, version): opaque, a function of both arguments
SanitizeName(name, version) == <<"sanitized", name, version>>

InitFetch ==
    /\ op \in {"Fetch", "GetLatestVersion"}
    /\ gtag \in {"", "v1"}
    /\ pc = "start"
    /\ release = NoRelease /\ err = NoErr /\ origErr = NoErr
    /\ candidates = <<>> /\ selected = NoAsset /\ processed = NoProcessed
    /\ trace = <<>>
    /\ responses = [byTag |-> NotCalled, latest |-> NotCalled,
                    list |-> NotCalled, filter |-> NotCalled,
                    process |-> NotCalled]
    /\ result = NoResult
    /\ ParseIdle

\* release, _, err = g.client.Repositories.GetReleaseByTag(ctx, owner, repo, tag)
FetchGetReleaseByTag ==
    /\ pc = "start"
    /\ PinnedCall(op, gtag)
    /\ \E ok \in BOOLEAN :
       \E rel \in (IF ok THEN Releases ELSE {NoRelease}) :
       \E e \in (IF ok THEN {NoErr} ELSE CallErrors("GetReleaseByTag")) :
          /\ release' = rel
          /\ err' = e
          /\ responses' = [responses EXCEPT !.byTag = Answer(rel, <<>>, <<>>, e)]
    /\ trace' = Append(trace, "GetReleaseByTag")
    /\ pc' = "check"
    /\ UNCHANGED <<op, gtag, origErr, candidates, selected, processed, result>>
    /\ UNCHANGED parseVars

\* getAnyLatestRelease, first half: GetLatestRelease and the test of its error
GetLatestRelease ==
    /\ pc = "start"
    /\ ~PinnedCall(op, gtag)
    /\ \E ok \in BOOLEAN :
       \E rel \in (IF ok THEN Releases ELSE {NoRelease}) :
       \E e \in (IF ok THEN {NoErr} ELSE CallErrors("GetLatestRelease")) :
          /\ responses' = [responses EXCEPT !.latest = Answer(rel, <<>>, <<>>, e)]
          /\ origErr' = e
          /\ IF e # NoErr /\ IsNotFound(e)
             THEN /\ pc' = "list"
                  /\ UNCHANGED <<release, err>>
             ELSE /\ release' = rel
                  /\ err' = e
                  /\ pc' = "check"
    /\ trace' = Append(trace, "GetLatestRelease")
    /\ UNCHANGED <<op, gtag, candidates, selected, processed, result>>
    /\ UNCHANGED parseVars

\* getAnyLatestRelease, second half: ListReleases after a 404
ListReleases ==
    /\ pc = "list"
    /\ \E ok \in BOOLEAN :
       \E rels \in (IF ok THEN ReleaseLists ELSE {<<>>}) :
       \E e \in (IF ok THEN {NoErr} ELSE CallErrors("ListReleases")) :
          /\ responses' = [responses EXCEPT !.list = Answer(NoRelease, rels, <<>>, e)]
          /\ IF e # NoErr
             THEN /\ release' = NoRelease
                  /\ err' = e
             ELSE IF Len(rels) > 0
                  THEN /\ release' = FirstListed(rels)
                       /\ err' = NoErr
                  ELSE /\ release' = NoRelease
                       /\ err' = EmptyListError(origErr)
    /\ trace' = Append(trace, "ListReleases")
    /\ pc' = "check"
    /\ UNCHANGED <<op, gtag, origErr, candidates, selected, processed, result>>
    /\ UNCHANGED parseVars

\* if err != nil { return nil, err }
FetchReturnErr ==
    /\ pc = "check"
    /\ op = "Fetch"
    /\ err # NoErr
    /\ result' = ErrorReturn(err)
    /\ pc' = "done"
    /\ UNCHANGED <<op, gtag, release, err, origErr, candidates, selected,
                   processed, trace, responses>>
    /\ UNCHANGED parseVars

FetchBuildCandidates ==
    /\ pc = "check"
    /\ op = "Fetch"
    /\ err = NoErr
    /\ candidates' = BuildCandidates(release.assets)
    /\ pc' = "filter"
    /\ UNCHANGED <<op, gtag, release, err, origErr, selected, processed,
                   trace, responses, result>>
    /\ UNCHANGED parseVars

\* gf, err := assets.FilterAssets(g.repo, candidates)
FetchFilterAssets ==
    /\ pc = "filter"
    /\ trace' = Append(trace, "FilterAssets")
    /\ \/ \E e \in CallErrors("FilterAssets") :
             /\ responses' = [responses EXCEPT
                                 !.filter = Answer(NoRelease, <<>>, candidates, e)]
             /\ err' = e
             /\ result' = ErrorReturn(e)
             /\ pc' = "done"
             /\ UNCHANGED selected
       \/ \E k \in 1..Len(candidates) :
             /\ responses' = [responses EXCEPT
                                 !.filter = Answer(NoRelease, <<>>, candidates, NoErr)]
             /\ selected' = candidates[k]
             /\ err' = NoErr
             /\ pc' = "process"
             /\ UNCHANGED result
    /\ UNCHANGED <<op, gtag, release, origErr, candidates, processed>>
    /\ UNCHANGED parseVars

\* name, outputFile, err := assets.ProcessURL(gf)
FetchProcessURL ==
    /\ pc = "process"
    /\ trace' = Append(trace, "ProcessURL")
    /\ \/ \E e \in CallErrors("ProcessURL") :
             /\ responses' = [responses EXCEPT
                                 !.process = Answer(NoRelease, <<>>, <<selected>>, e)]
             /\ err' = e
             /\ result' = ErrorReturn(e)
             /\ pc' = "done"
             /\ UNCHANGED processed
       \/ \E n \in {selected.Name, "bin"} :
             /\ responses' = [responses EXCEPT
                                 !.process = Answer(NoRelease, <<>>, <<selected>>, NoErr)]
             /\ processed' = [name |-> n, outputFile |-> selected.URL]
             /\ err' = NoErr
             /\ pc' = "assemble"
             /\ UNCHANGED result
    /\ UNCHANGED <<op, gtag, release, origErr, candidates, selected>>
    /\ UNCHANGED parseVars

\* version := release.GetTagName(); f := &File{...}; return f, nil
FetchAssemble ==
    /\ pc = "assemble"
    /\ result' = [file |-> [Data |-> processed.outputFile,
                            Name |-> SanitizeName(processed.name, release.tagName),
                            Hash |-> "sha256.New()",
                            Version |-> release.tagName],
                  version |-> "", url |-> "", err |-> NoErr]
    /\ pc' = "done"
    /\ UNCHANGED <<op, gtag, release, err, origErr, candidates, selected,
                   processed, trace, responses>>
    /\ UNCHANGED parseVars

\* GetLatestVersion after getAnyLatestRelease returned
GetLatestVersionReturn ==
    /\ pc = "check"
    /\ op = "GetLatestVersion"
    /\ IF err # NoErr
       THEN result' = [file |-> NoFile, version |-> "", url |-> "", err |-> err]
       ELSE result' = [file |-> NoFile, version |-> release.tagName,
                       url |-> release.htmlURL, err |-> NoErr]
    /\ pc' = "done"
    /\ UNCHANGED <<op, gtag, release, err, origErr, candidates, selected,
                   processed, trace, responses>>
    /\ UNCHANGED parseVars

Next ==
    \/ FetchGetReleaseByTag
    \/ GetLatestRelease
    \/ ListReleases
    \/ FetchReturnErr
    \/ FetchBuildCandidates
    \/ FetchFilterAssets
    \/ FetchProcessURL
    \/ FetchAssemble
    \/ GetLatestVersionReturn

Spec == InitFetch /\ [][Next]_vars

\* Every outbound call of the model returns, so a method that can take a
\* step eventually takes it.
FairSpec == Spec /\ WF_vars(Next)


\* ================================================================ properties
NonEmptySegs == SelectSeq(urlSegs, LAMBDA x : x # EmptyStr)
HasReleasesSeg == \E k \in DOMAIN urlSegs : urlSegs[k] = <<"releases">>

\* /<owner>/<repo>/releases/<qualifier>/<T>
ViewTagShape ==
    /\ Len(urlSegs) = 6
    /\ urlSegs[1] = EmptyStr
    /\ urlSegs[2] # EmptyStr /\ urlSegs[3] # EmptyStr
    /\ urlSegs[4] = <<"releases">> /\ urlSegs[5] = <<"tag">>
    /\ urlSegs[6] # EmptyStr

\* /<owner>/<repo>/releases/download/<T>/<asset>
DownloadShape ==
    /\ Len(urlSegs) = 7
    /\ urlSegs[1] = EmptyStr
    /\ urlSegs[2] # EmptyStr /\ urlSegs[3] # EmptyStr
    /\ urlSegs[4] = <<"releases">> /\ urlSegs[5] = <<"download">>
    /\ urlSegs[6] # EmptyStr /\ urlSegs[7] # EmptyStr

\* C1: a path with fewer than two non-empty segments ends in a parsing
\* error: no handle is returned and the parser does not abort abnormally.
C1_ShortPathFails ==
    (ppc # "idle" /\ Len(NonEmptySegs) < 2) =>
        /\ outcome \notin {"handle", "panic"}
        /\ handle = NoHandle
        /\ (ppc = "done" => outcome = "error")

\* C2: for a download-shaped path the tag bound into the handle is the one
\* segment after the qualifier, without the asset file name.
C2_DownloadTag ==
    (DownloadShape /\ outcome = "handle") => handle.tag = urlSegs[6]

\* C3: for a view-tag-shaped path a handle is returned whose tag is the
\* segment after "tag"; a path without a "releases" segment gives an empty tag.
C3_ViewTag ==
    /\ (ViewTagShape /\ ppc = "done") =>
           (outcome = "handle" /\ handle.tag = urlSegs[6])
    /\ (ppc # "idle" /\ ~HasReleasesSeg /\ outcome = "handle") =>
           handle.tag = EmptyStr

\* C4: a path with at least two non-empty segments gives a handle whose
\* owner and repo are the first and second non-empty segment, whatever follows.
C4_OwnerRepo ==
    (ppc = "done" /\ Len(NonEmptySegs) >= 2) =>
        /\ outcome = "handle"
        /\ handle.owner = NonEmptySegs[1]
        /\ handle.repo = NonEmptySegs[2]

Count(name) == Cardinality({k \in DOMAIN trace : trace[k] = name})
Called(name) == Count(name) > 0
Running == pc # "idle"
LatestNotFound ==
    /\ Running
    /\ responses.latest.called
    /\ responses.latest.err.isErrResp
    /\ responses.latest.err.status = 404

\* C5: get-latest answers 404 and the listing answers a non-empty list:
\* getAnyLatestRelease returns the first listed release and no error.
C5_FirstListed ==
    (/\ LatestNotFound
     /\ responses.list.called
     /\ responses.list.err = NoErr
     /\ Len(responses.list.rels) > 0
     /\ pc = "check") =>
        /\ release = responses.list.rels[1]
        /\ err = NoErr

C5_Witness ==
    /\ LatestNotFound
    /\ op = "Fetch" /\ gtag = ""
    /\ pc = "check"
    /\ responses.list.called
    /\ Len(responses.list.rels) = 2
    /\ responses.list.rels[1] # responses.list.rels[2]
    /\ release = responses.list.rels[1]

\* C6: get-latest answers 404 and the listing answers an empty list: the
\* error given to the caller is the error of get-latest, and nothing else
\* is returned.
C6_OriginalError ==
    (/\ LatestNotFound
     /\ responses.list.called
     /\ responses.list.err = NoErr
     /\ Len(responses.list.rels) = 0) =>
        /\ pc \in {"check", "done"}
        /\ release = NoRelease
        /\ err = responses.latest.err
        /\ (pc = "done" =>
               /\ result.err = responses.latest.err
               /\ result.file = NoFile
               /\ result.version = "" /\ result.url = "")

C6_Witness ==
    /\ LatestNotFound
    /\ op = "Fetch" /\ gtag = ""
    /\ responses.list.called
    /\ responses.list.err = NoErr
    /\ responses.list.rels = <<>>
    /\ pc = "done"
    /\ result.err.src = "GetLatestRelease"

\* C7: the listing is called only directly after a get-latest call that
\* failed with 404 (in Fetch: only for an empty tag).  A failed get-by-tag,
\* and a get-latest failing with anything but 404, end Fetch with exactly
\* that error and no further call.
C7_FallbackOnlyOn404 ==
    /\ (Running /\ Called("ListReleases")) =>
           /\ Len(trace) >= 2
           /\ trace[1] = "GetLatestRelease" /\ trace[2] = "ListReleases"
           /\ LatestNotFound
           /\ (op = "Fetch" => gtag = "")
    /\ (Running /\ op = "Fetch" /\ gtag # "") =>
           /\ ~Called("GetLatestRelease") /\ ~Called("ListReleases")
           /\ (responses.byTag.called /\ responses.byTag.err # NoErr) =>
                  /\ trace = <<"GetReleaseByTag">>
                  /\ pc \in {"check", "done"}
                  /\ (pc = "done" => /\ result.err = responses.byTag.err
                                     /\ result.file = NoFile)
    /\ (/\ Running /\ op = "Fetch" /\ gtag = ""
        /\ responses.latest.called
        /\ responses.latest.err # NoErr
        /\ ~LatestNotFound) =>
           /\ trace = <<"GetLatestRelease">>
           /\ pc \in {"check", "done"}
           /\ (pc = "done" => /\ result.err = responses.latest.err
                              /\ result.file = NoFile)

C7_Witness ==
    /\ op = "Fetch" /\ gtag = "" /\ pc = "done"
    /\ responses.latest.called
    /\ responses.latest.err.isErrResp
    /\ responses.latest.err.status = 403
    /\ trace = <<"GetLatestRelease">>
    /\ result.err = responses.latest.err

\* C8: the list handed to the asset selector has one entry per attachment
\* of the resolved release, in the same order, each with that attachment's
\* name and download URL.
C8_CandidatesMirrorAssets ==
    (Running /\ responses.filter.called) =>
        /\ Len(responses.filter.arg) = Len(release.assets)
        /\ \A k \in 1..Len(release.assets) :
              /\ responses.filter.arg[k].Name = release.assets[k].name
              /\ responses.filter.arg[k].URL = release.assets[k].url

C8_Witness ==
    /\ Running
    /\ responses.filter.called
    /\ Len(release.assets) = 2
    /\ release.assets[1] # release.assets[2]
    /\ Len(responses.filter.arg) = 2

\* C9: a Fetch run makes one release call, at most one listing call, no
\* call twice; a failed step is the last step and its error is returned
\* with no artifact; the run ends, with either an artifact and no error or
\* an error and no artifact.
ReleaseCalls == Count("GetReleaseByTag") + Count("GetLatestRelease")
C9_Shape ==
    (Running /\ op = "Fetch") =>
        /\ ReleaseCalls <= 1
        /\ \A k \in DOMAIN trace : Count(trace[k]) = 1
        /\ Called("ListReleases") => trace[1] = "GetLatestRelease"
        /\ (pc = "done") =>
              /\ ReleaseCalls = 1
              /\ \/ result.err = NoErr /\ result.file # NoFile
                 \/ result.err # NoErr /\ result.file = NoFile
        /\ \A c \in {"byTag", "latest", "list", "filter", "process"} :
              (responses[c].called /\ responses[c].err # NoErr
                 /\ ~(c = "latest" /\ LatestNotFound)) =>
                    /\ trace[Len(trace)] = responses[c].err.src
                    /\ pc \in {"check", "done"}
                    /\ (pc = "done" => /\ result.err = responses[c].err
                                       /\ result.file = NoFile)
        /\ (LatestNotFound /\ pc = "done" /\ result.err = responses.latest.err) =>
              /\ result.file = NoFile
              /\ trace = <<"GetLatestRelease", "ListReleases">>

C9_LinearRun == []C9_Shape /\ <>(pc = "done")

C9_Witness ==
    /\ op = "Fetch" /\ pc = "done"
    /\ trace = <<"GetLatestRelease", "ListReleases", "FilterAssets", "ProcessURL">>
    /\ result.err.src = "ProcessURL"
    /\ result.file = NoFile

\* C10: GetLatestVersion never calls get-by-tag, whatever the handle's tag;
\* it returns the tag name and HTML URL of the release (or the error) that
\* the provider's answers determine on the latest-or-fallback path, which
\* is also what Fetch with an empty tag resolves from those answers.
LatestOrFallbackRelease ==
    IF responses.latest.err = NoErr THEN responses.latest.rel
    ELSE IF LatestNotFound /\ responses.list.err = NoErr
                           /\ Len(responses.list.rels) > 0
         THEN responses.list.rels[1]
         ELSE NoRelease
LatestOrFallbackError ==
    IF responses.latest.err = NoErr THEN NoErr
    ELSE IF ~LatestNotFound THEN responses.latest.err
    ELSE IF responses.list.err # NoErr THEN responses.list.err
    ELSE IF Len(responses.list.rels) > 0 THEN NoErr
    ELSE responses.latest.err

C10_LatestVersionUnpinned ==
    /\ (Running /\ op = "GetLatestVersion") =>
           /\ ~Called("GetReleaseByTag")
           /\ (pc = "done") =>
                 /\ responses.latest.called
                 /\ result.err = LatestOrFallbackError
                 /\ result.version = LatestOrFallbackRelease.tagName
                 /\ result.url = LatestOrFallbackRelease.htmlURL
    /\ (Running /\ op = "Fetch" /\ gtag = "" /\ pc = "check") =>
           /\ release = LatestOrFallbackRelease
           /\ err = LatestOrFallbackError

C10_Witness ==
    /\ op = "GetLatestVersion" /\ gtag # "" /\ pc = "done"
    /\ LatestNotFound
    /\ responses.list.called
    /\ Len(responses.list.rels) = 2
    /\ responses.list.rels[1].tagName # responses.list.rels[2].tagName
    /\ result.err = NoErr
    /\ result.version = responses.list.rels[1].tagName

====
